---- MODULE Spec2Model ----
(***************************************************************************)
(* Model of src/api/status.py: the packed timestamp codec (T4Date), the    *)
(* TLV byte-stream decoder (DpDeviceStatus.analyze_dp_device_status), the  *)
(* device field registry and lookup engine (DevicePanel.get_model,         *)
(* DevicePanel.get_dp_device_status) and the accessor facade (DevicePanel. *)
(* is_water_leak .. get_water_state_time).                                 *)
(*                                                                         *)
(* A Python str is a sequence of one-character strings, a bytes/bytearray  *)
(* value a sequence of integers 0..255.  Python indices are 0-based, the   *)
(* sequences here 1-based: byte_array[i] of the source is byte_array[i+1]. *)
(* A raised exception is an explicit outcome (a field raised = TRUE).      *)
(***************************************************************************)
EXTENDS Integers, Sequences, FiniteSets, TLC

VARIABLES
    pcode, model, status, timestamp, port,  \* the arguments of the accessors
    pc,          \* position in the decode the lookup engine runs for (model, status)
    byte_array,  \* analyze_dp_device_status: the parsed buffer
    has_dp_id,   \* analyze_dp_device_status: id-prefixed mode
    i,           \* analyze_dp_device_status: the cursor
    dp_status,   \* analyze_dp_device_status: the record being built
    result,      \* analyze_dp_device_status: the records appended so far
    b,           \* analyze_dp_device_status: the control byte read last
    out,         \* the values the nine accessors return for the arguments
    t4_raw, t4_date  \* T4Date.get_t4_date_by_param: argument and result

vars == <<pcode, model, status, timestamp, port, pc, byte_array, has_dp_id, i,
          dp_status, result, b, out, t4_raw, t4_date>>

(***************************************************************************)
(* Program constants.                                                      *)
(***************************************************************************)
ALARM == 2
DURATION == 19
EVENT_TIME == 21
WK_STATE == 30
BAT == 31
RSSI == 32
BaseYear == 2020
KnownModel == 271

(***************************************************************************)
(* Python primitives.                                                      *)
(***************************************************************************)
Min(x, y) == IF x < y THEN x ELSE y
Max(x, y) == IF x > y THEN x ELSE y

RECURSIVE Pow2(_)
Pow2(n) == IF n = 0 THEN 1 ELSE 2 * Pow2(n - 1)

\* x >> n on non-negative integers
Shr(x, n) == x \div Pow2(n)

\* s[a:b] with 0 <= a: the slice is clipped to the sequence, never raises
Slice(s, from, to) == SubSeq(s, from + 1, Min(to, Len(s)))

\* s.find(c): the 0-based index of the first occurrence, -1 if there is none
Find(s, c) ==
    IF \E k \in 1..Len(s) : s[k] = c
    THEN (CHOOSE k \in 1..Len(s) : s[k] = c /\ \A j \in 1..(k - 1) : s[j] # c) - 1
    ELSE -1

HexDigits == <<"0", "1", "2", "3", "4", "5", "6", "7", "8", "9",
               "A", "B", "C", "D", "E", "F">>
LowerHexDigits == <<"0", "1", "2", "3", "4", "5", "6", "7", "8", "9",
                    "a", "b", "c", "d", "e", "f">>

IsHexDigit(c) == \E k \in 1..16 : HexDigits[k] = c \/ LowerHexDigits[k] = c
HexDigitValue(c) ==
    (CHOOSE k \in 1..16 : HexDigits[k] = c \/ LowerHexDigits[k] = c) - 1

\* int(substring, 16) of a two-character substring: two hex digits, or a sign
\* and one hex digit; anything else raises ValueError.  (Characters int()
\* treats specially besides the sign - whitespace, "_", "x" - are not in the
\* alphabets the inputs are drawn from.)
ParseInt16(sub) ==
    IF IsHexDigit(sub[1]) /\ IsHexDigit(sub[2])
    THEN [raised |-> FALSE, value |-> 16 * HexDigitValue(sub[1]) + HexDigitValue(sub[2])]
    ELSE IF sub[1] = "-" /\ IsHexDigit(sub[2])
    THEN [raised |-> FALSE, value |-> 0 - HexDigitValue(sub[2])]
    ELSE IF sub[1] = "+" /\ IsHexDigit(sub[2])
    THEN [raised |-> FALSE, value |-> HexDigitValue(sub[2])]
    ELSE [raised |-> TRUE, value |-> 0]

\* bytes_array + b'\x00' * n
ZeroPad(bs, n) == bs \o [k \in 1..n |-> 0]

\* int.from_bytes(bs, 'little') of a byte string whose value fits
RECURSIVE LittleEndian(_)
LittleEndian(bs) ==
    IF bs = <<>> THEN 0 ELSE bs[1] + 256 * LittleEndian(Tail(bs))

(***************************************************************************)
(* Python integers are unbounded, the model checker's are 32 bits wide.  A *)
(* value that may not fit is kept exactly as two digits, hi * base + lo    *)
(* with 0 <= lo < base: base 2^16 for the 32-bit quantities the payload    *)
(* carries, the milliseconds of a day for epoch milliseconds.              *)
(***************************************************************************)
HalfWord == Pow2(16)
MsPerDay == 24 * 60 * 60 * 1000

Wide(hi, lo) == [hi |-> hi, lo |-> lo]
WideNorm(hi, lo, base) == Wide(hi + (lo \div base), lo % base)
WideOf(n, base) == WideNorm(0, n, base)
WideSub(x, y, base) == WideNorm(x.hi - y.hi, x.lo - y.lo, base)

\* struct.unpack('<Q', bs)[0] of eight bytes, base 2^16; the callers pad a
\* payload of at most four bytes with zeros, so hi < 2^16
UnpackQ(bs) == Wide(LittleEndian(Slice(bs, 2, 8)), LittleEndian(Slice(bs, 0, 2)))

\* (x >> n) & (2^k - 1) of a base-2^16 value, k <= 16
BitField(x, n, k) ==
    IF n >= 16
    THEN Shr(x.hi, n - 16) % Pow2(k)
    ELSE ((x.hi % Pow2(k)) * Pow2(16 - n) + Shr(x.lo, n)) % Pow2(k)

(***************************************************************************)
(* T4Date                                                                  *)
(***************************************************************************)
T4Date(second, minute, hour, date, month, year) ==
    [second |-> second, minute |-> minute, hour |-> hour,
     date |-> date, month |-> month, year |-> year]

\* T4Date(): the defaults of __init__
T4DateDefault == T4Date(0, 0, 0, 0, 0, BaseYear)

get_t4_date_by_param_YearShift25(ts) ==
    T4Date(BitField(ts, 0, 6),
           BitField(ts, 6, 6),
           BitField(ts, 12, 5),
           BitField(ts, 17, 5),
           BitField(ts, 22, 4),
           BitField(ts, 25, 6) + BaseYear)

get_t4_date_by_param(ts) ==
    T4Date(BitField(ts, 0, 6),
           BitField(ts, 6, 6),
           BitField(ts, 12, 5),
           BitField(ts, 17, 5),
           BitField(ts, 22, 4),
           BitField(ts, 26, 6) + BaseYear)

IsLeap(y) == (y % 4 = 0 /\ y % 100 # 0) \/ y % 400 = 0
DaysInMonth(y, m) ==
    IF m = 2 THEN (IF IsLeap(y) THEN 29 ELSE 28)
    ELSE IF m \in {4, 6, 9, 11} THEN 30 ELSE 31

\* datetime(year, month, day, hour, minute, second) raises ValueError on a
\* field out of range
DatetimeValid(t) ==
    /\ t.month \in 1..12
    /\ t.date >= 1 /\ t.date <= DaysInMonth(t.year, t.month)
    /\ t.hour <= 23 /\ t.minute <= 59 /\ t.second <= 59

\* days from 1970-01-01 to y-m-d (proleptic Gregorian)
DaysFromCivil(y, m, d) ==
    LET yy  == IF m <= 2 THEN y - 1 ELSE y
        era == yy \div 400
        yoe == yy - era * 400
        mp  == IF m > 2 THEN m - 3 ELSE m + 9
        doy == (153 * mp + 2) \div 5 + d - 1
        doe == yoe * 365 + yoe \div 4 - yoe \div 100 + doy
    IN  era * 146097 + doe - 719468

\* T4Date.get_timestamp: epoch milliseconds (base MsPerDay) of the naive
\* datetime; the host's zone is taken to be UTC
get_timestamp(t) ==
    IF ~DatetimeValid(t)
    THEN [raised |-> TRUE, value |-> Wide(0, 0)]
    ELSE [raised |-> FALSE,
          value |-> Wide(DaysFromCivil(t.year, t.month, t.date),
                         ((t.hour * 60 + t.minute) * 60 + t.second) * 1000)]

(***************************************************************************)
(* DpDeviceStatus.  The while loop of analyze_dp_device_status is the state *)
(* machine below (LoopTest, ControlByte, ExtendedType); these are the      *)
(* statements of its body.                                                 *)
(***************************************************************************)
\* type_value None is the empty sequence: no record the decoder appends has
\* an empty value (see TypeValueNeverEmpty)
DpDeviceStatus(dp_id, type_code, type_len, type_value) ==
    [dp_id |-> dp_id, type_code |-> type_code, type_len |-> type_len,
     type_value |-> type_value]

\* DpDeviceStatus(): the defaults of __init__
DpDeviceStatusDefault == DpDeviceStatus(0, -1, 0, <<>>)

\* lines 145-149: every adjacent pair of characters becomes one byte; a pair
\* int(., 16) rejects raises ValueError
ParseHex(hex_str) ==
    LET length == Len(hex_str) \div 2
        pair(k) == ParseInt16(Slice(hex_str, 2 * k, 2 * k + 2))
    IN  IF \E k \in 0..(length - 1) : pair(k).raised
        THEN [raised |-> TRUE, bytes |-> <<>>]
        ELSE [raised |-> FALSE,
              bytes |-> [k \in 1..length |-> pair(k - 1).value % 256]]

\* lines 154-158: the id byte of an id-prefixed record, read at the cursor
ReadDpId(bytes, cur) ==
    IF cur >= Len(bytes)
    THEN [raised |-> TRUE, i |-> cur, st |-> DpDeviceStatusDefault]
    ELSE [raised |-> FALSE, i |-> cur + 1,
          st |-> [DpDeviceStatusDefault EXCEPT
                     !.dp_id = LittleEndian(ZeroPad(<<bytes[cur + 1]>>, 7))]]

\* lines 160-184 up to the read of the extended type tag.  next = "while":
\* the record st was appended and the cursor moved behind it; next = "ext":
\* the control byte announced an extended type tag, to be read at cursor i.
ReadControlByte_NoExtraIncrement(bytes, cur, st) ==
    IF cur >= Len(bytes)
    THEN [raised |-> TRUE, next |-> "raised", i |-> cur, st |-> st, b |-> 0]
    ELSE
    LET ctl == bytes[cur + 1] IN
    IF Shr(ctl, 7) % 2 = 0
    THEN [raised |-> FALSE, next |-> "while", i |-> cur + 1, b |-> ctl,
          st |-> [st EXCEPT !.type_code = Shr(ctl, 4) % 8,
                            !.type_len = 1,
                            !.type_value = <<ctl>>]]
    ELSE
    LET type_code_part == Shr(ctl, 2) % 32
        len_bytes == (ctl % 4) + 1
        total_len == len_bytes + 1
    IN  IF type_code_part <= 30
        THEN [raised |-> FALSE, next |-> "while", i |-> cur + (total_len - 1) + 1,
              b |-> ctl,
              st |-> [st EXCEPT !.type_code = type_code_part + 8,
                                !.type_len = len_bytes,
                                !.type_value = Slice(bytes, cur, cur + total_len)]]
        ELSE [raised |-> FALSE, next |-> "ext", i |-> cur + 1, b |-> ctl,
              st |-> [st EXCEPT !.type_len = len_bytes]]

ReadControlByte_NoPayloadSkip(bytes, cur, st) ==
    IF cur >= Len(bytes)
    THEN [raised |-> TRUE, next |-> "raised", i |-> cur, st |-> st, b |-> 0]
    ELSE
    LET ctl == bytes[cur + 1] IN
    IF Shr(ctl, 7) % 2 = 0
    THEN [raised |-> FALSE, next |-> "while", i |-> cur + 1 + 1, b |-> ctl,
          st |-> [st EXCEPT !.type_code = Shr(ctl, 4) % 8,
                            !.type_len = 1,
                            !.type_value = <<ctl>>]]
    ELSE
    LET type_code_part == Shr(ctl, 2) % 32
        len_bytes == (ctl % 4) + 1
        total_len == len_bytes + 1
    IN  IF type_code_part <= 30
        THEN [raised |-> FALSE, next |-> "while", i |-> cur + 1,
              b |-> ctl,
              st |-> [st EXCEPT !.type_code = type_code_part + 8,
                                !.type_len = len_bytes,
                                !.type_value = Slice(bytes, cur, cur + total_len)]]
        ELSE [raised |-> FALSE, next |-> "ext", i |-> cur + 1, b |-> ctl,
              st |-> [st EXCEPT !.type_len = len_bytes]]

ReadControlByte(bytes, cur, st) ==
    IF cur >= Len(bytes)
    THEN [raised |-> TRUE, next |-> "raised", i |-> cur, st |-> st, b |-> 0]
    ELSE
    LET ctl == bytes[cur + 1] IN
    IF Shr(ctl, 7) % 2 = 0
    THEN [raised |-> FALSE, next |-> "while", i |-> cur + 1 + 1, b |-> ctl,
          st |-> [st EXCEPT !.type_code = Shr(ctl, 4) % 8,
                            !.type_len = 1,
                            !.type_value = <<ctl>>]]
    ELSE
    LET type_code_part == Shr(ctl, 2) % 32
        len_bytes == (ctl % 4) + 1
        total_len == len_bytes + 1
    IN  IF type_code_part <= 30
        THEN [raised |-> FALSE, next |-> "while", i |-> cur + (total_len - 1) + 1,
              b |-> ctl,
              st |-> [st EXCEPT !.type_code = type_code_part + 8,
                                !.type_len = len_bytes,
                                !.type_value = Slice(bytes, cur, cur + total_len)]]
        ELSE [raised |-> FALSE, next |-> "ext", i |-> cur + 1, b |-> ctl,
              st |-> [st EXCEPT !.type_len = len_bytes]]

\* lines 177-184 for type_code_part == 31: the extended type tag is read at
\* the cursor, which line 176 moved behind the control byte
ReadExtendedType(bytes, cur, st) ==
    IF cur >= Len(bytes)
    THEN [raised |-> TRUE, next |-> "raised", i |-> cur, st |-> st]
    ELSE
    LET len_bytes == st.type_len IN
        [raised |-> FALSE, next |-> "while", i |-> cur + len_bytes + 1,
         st |-> [st EXCEPT !.type_code = bytes[cur + 1] + 39,
                           !.type_value = Slice(bytes, cur - 1, cur + len_bytes)]]

\* lines 141-143: hex_str cut at its first comma
CutAtComma_Keep(hex_str) == hex_str

CutAtComma(hex_str) ==
    LET comma_pos == Find(hex_str, ",")
    IN  IF comma_pos # -1 THEN Slice(hex_str, 0, comma_pos) ELSE hex_str

(***************************************************************************)
(* Optional values and outcomes of calls                                   *)
(***************************************************************************)
None == [is_none |-> TRUE]
Some(v) == [is_none |-> FALSE, value |-> v]

\* a call returns v / a call raises
Ret(v) == [raised |-> FALSE, value |-> v]
Raise == [raised |-> TRUE]

(***************************************************************************)
(* DevicePanel: registry and lookup engine                                 *)
(***************************************************************************)
RecDeviceDpModel(dp_code, dp_id, dp_port, dp_type) ==
    [dp_code |-> dp_code, dp_id |-> dp_id, dp_port |-> dp_port, dp_type |-> dp_type]

Model271 ==
    << RecDeviceDpModel(RSSI, 23, 0, 1),
       RecDeviceDpModel(BAT, 24, 0, 1),
       RecDeviceDpModel(WK_STATE, 25, 1, 1),
       RecDeviceDpModel(WK_STATE, 26, 2, 1),
       RecDeviceDpModel(WK_STATE, 27, 3, 1),
       RecDeviceDpModel(ALARM, 29, 1, 1),
       RecDeviceDpModel(ALARM, 30, 2, 1),
       RecDeviceDpModel(ALARM, 31, 3, 1),
       RecDeviceDpModel(EVENT_TIME, 33, 1, 1),
       RecDeviceDpModel(EVENT_TIME, 34, 2, 1),
       RecDeviceDpModel(EVENT_TIME, 35, 3, 1),
       RecDeviceDpModel(DURATION, 37, 1, 1),
       RecDeviceDpModel(DURATION, 38, 2, 1),
       RecDeviceDpModel(DURATION, 39, 3, 1) >>

get_model_DuplicateId(model_code) ==
    IF model_code = KnownModel
    THEN Some([Model271 EXCEPT ![14] = RecDeviceDpModel(DURATION, 38, 3, 1)])
    ELSE None

get_model_AnyModel(model_code) ==
    IF model_code # 0 THEN Some(Model271) ELSE None

get_model(model_code) ==
    IF model_code = KnownModel THEN Some(Model271) ELSE None

is_dp_status_AnyHash(s) == Find(s, "#") # -1

is_dp_status(s) == Find(s, "#") = 2

is_return_default_EmptyOnly(m, s) == s = <<>>

is_return_default(m, s) ==
    IF m # 0 THEN s = <<>> ELSE TRUE

\* get_dp_device_status, lines 413-430: the descriptor the scan leaves in
\* rec_device_dp_model - the first row that matches, else the last row visited
ResolveDescriptor_NoneOnMiss(m, dp_status_code, p0) ==
    LET p == IF p0 = 0 THEN 1 ELSE p0
        model_list == get_model(m)
    IN  IF model_list.is_none
        THEN None
        ELSE
        LET rows == model_list.value
            hits == {k \in 1..Len(rows) :
                        /\ rows[k].dp_type = 1
                        /\ rows[k].dp_code = dp_status_code
                        /\ (IF rows[k].dp_port # 0 THEN rows[k].dp_port ELSE 1) = p}
        IN  IF hits = {} THEN None
            ELSE Some(rows[CHOOSE k \in hits : \A j \in hits : k <= j])

ResolveDescriptor(m, dp_status_code, p0) ==
    LET p == IF p0 = 0 THEN 1 ELSE p0
        model_list == get_model(m)
    IN  IF model_list.is_none \/ model_list.value = <<>>
        THEN None
        ELSE
        LET rows == model_list.value
            dp_port(k) == IF rows[k].dp_port # 0 THEN rows[k].dp_port ELSE 1
            hit(k) == /\ rows[k].dp_type = 1
                      /\ rows[k].dp_code = dp_status_code
                      /\ dp_port(k) = p
        IN  IF \E k \in 1..Len(rows) : hit(k)
            THEN Some(rows[CHOOSE k \in 1..Len(rows) :
                              hit(k) /\ \A j \in 1..(k - 1) : ~hit(j)])
            ELSE Some(rows[Len(rows)])

\* get_dp_device_status, lines 432-436: the payload and the decode mode
StatusParam(s) ==
    IF Find(s, "#") # -1
    THEN [status_param |-> Slice(s, 3, Len(s)),
          is_versioned |-> Slice(s, 1, 2) = <<"1">>]
    ELSE [status_param |-> s, is_versioned |-> TRUE]

\* get_dp_device_status, lines 438-447: the first record that qualifies
SearchRecords_TypeOnly(records, is_versioned, dp_status_code, dp_id) ==
    LET ok(k) == records[k].type_code = dp_status_code
    IN  IF \E k \in 1..Len(records) : ok(k)
        THEN Some(records[CHOOSE k \in 1..Len(records) :
                             ok(k) /\ \A j \in 1..(k - 1) : ~ok(j)])
        ELSE None

SearchRecords(records, is_versioned, dp_status_code, dp_id) ==
    LET ok(k) == IF is_versioned
                 THEN /\ records[k].type_code = dp_status_code
                      /\ records[k].dp_id = dp_id
                 ELSE records[k].type_code = dp_status_code
    IN  IF \E k \in 1..Len(records) : ok(k)
        THEN Some(records[CHOOSE k \in 1..Len(records) :
                             ok(k) /\ \A j \in 1..(k - 1) : ~ok(j)])
        ELSE None

\* Ret(None), Ret(Some(record)), or Raise when the decode raises.  dec is
\* what the call of analyze_dp_device_status in line 438 comes to: the list
\* it returns, or the exception it raises before any record is searched.
get_dp_device_status_SearchPartial(m, s, dp_status_code, p, dec) ==
    LET rec_device_dp_model == ResolveDescriptor(m, dp_status_code, p)
    IN  IF rec_device_dp_model.is_none
        THEN Ret(None)
        ELSE Ret(SearchRecords(dec.result, StatusParam(s).is_versioned,
                               dp_status_code, rec_device_dp_model.value.dp_id))

get_dp_device_status(m, s, dp_status_code, p, dec) ==
    LET rec_device_dp_model == ResolveDescriptor(m, dp_status_code, p)
    IN  IF rec_device_dp_model.is_none
        THEN Ret(None)
        ELSE IF dec.raised
        THEN Raise
        ELSE Ret(SearchRecords(dec.result, StatusParam(s).is_versioned,
                               dp_status_code, rec_device_dp_model.value.dp_id))

(***************************************************************************)
(* DevicePanel: the accessors.  Each is IF gate THEN default ELSE          *)
(* Catch(<body of the try block>, default); the body is Ret(v) for         *)
(* "return v" and Raise for an exception.  A body that runs off the end of *)
(* its try block reaches the "return default" behind it: Ret(default).     *)
(***************************************************************************)
\* try: ... except Exception: return default / pass, then return default
Catch_Propagate(r, default) == r

Catch(r, default) == IF r.raised THEN Ret(default) ELSE r

\* the "unset" record test shared by the accessors:
\* dp_device_status is None or dp_device_status.type_value is None
Unset(l) == l.is_none \/ l.value.type_value = <<>>

MinusOneDuration == WideOf(-1, HalfWord)
MinusOneMillis == WideOf(-1, MsPerDay)

is_water_leak(pc0, m, s, ts, p, dec) ==
    IF is_return_default(m, s) THEN Ret(FALSE) ELSE
    Catch(IF is_dp_status(s)
          THEN LET l == get_dp_device_status(m, s, ALARM, p, dec) IN
               IF l.raised THEN Raise
               ELSE IF Unset(l.value) THEN Ret(FALSE)
               ELSE IF Len(l.value.value.type_value) < 1 THEN Ret(FALSE)
               ELSE Ret(l.value.value.type_value[1] % 2 = 1)
          ELSE Raise,
          FALSE)

is_water_shortage(pc0, m, s, ts, p, dec) ==
    IF is_return_default(m, s) THEN Ret(FALSE) ELSE
    Catch(IF is_dp_status(s)
          THEN LET l == get_dp_device_status(m, s, ALARM, p, dec) IN
               IF l.raised THEN Raise
               ELSE IF Unset(l.value) THEN Ret(FALSE)
               ELSE IF Len(l.value.value.type_value) < 1 THEN Ret(FALSE)
               ELSE Ret(Shr(l.value.value.type_value[1], 1) % 2 = 1)
          ELSE Raise,
          FALSE)

get_bat(pc0, m, s, ts, dec) ==
    IF is_return_default(m, s) THEN Ret(0) ELSE
    Catch(IF ~is_dp_status(s) THEN Raise ELSE
          LET l == get_dp_device_status(m, s, BAT, 0, dec) IN
          IF l.raised THEN Raise
          ELSE IF Unset(l.value) THEN Ret(0)
          ELSE IF Len(l.value.value.type_value) < 2 THEN Ret(0)
          ELSE Ret(LittleEndian(ZeroPad(Slice(l.value.value.type_value, 1, 2), 7))),
          0)

\* both branches on pcode run the same statements
get_rssi(pc0, m, s, ts, dec) ==
    IF is_return_default(m, s) THEN Ret(0) ELSE
    Catch(IF ~is_dp_status(s) THEN Raise ELSE
          LET l == get_dp_device_status(m, s, RSSI, 0, dec) IN
          IF l.raised THEN Raise
          ELSE IF Unset(l.value) THEN Ret(0)
          ELSE IF Len(l.value.value.type_value) < 2 THEN Ret(0)
          ELSE Ret(l.value.value.type_value[2]),
          0)

get_work_mode(pc0, m, s, ts, p, dec) ==
    IF is_return_default(m, s) THEN Ret(0) ELSE
    Catch(IF is_dp_status(s)
          THEN LET l == get_dp_device_status(m, s, WK_STATE, p, dec) IN
               IF l.raised THEN Raise
               ELSE IF Unset(l.value) THEN Ret(0)
               ELSE IF Len(l.value.value.type_value) < 2 THEN Ret(0)
               ELSE Ret(l.value.value.type_value[2] % 16)
          ELSE Raise,
          0)

\* lines 341-346 / 362-367: the payload, padded to eight bytes, little-endian
DurationOf_FromControlByte(rec) ==
    LET type_len == rec.type_len
        bytes_array == Slice(rec.type_value, 0, type_len)
        padded_bytes == ZeroPad(bytes_array, Max(type_len, 8) - Len(bytes_array))
    IN  UnpackQ(Slice(padded_bytes, 0, 8))

DurationOf(rec) ==
    LET type_len == rec.type_len
        bytes_array == Slice(rec.type_value, 1, 1 + type_len)
        padded_bytes == ZeroPad(bytes_array, Max(type_len, 8) - Len(bytes_array))
    IN  UnpackQ(Slice(padded_bytes, 0, 8))

get_work_duration(pc0, m, s, ts, p, dec) ==
    IF is_return_default(m, s) THEN Ret(MinusOneDuration) ELSE
    Catch(IF is_dp_status(s)
          THEN LET l == get_dp_device_status(m, s, DURATION, p, dec) IN
               IF l.raised THEN Raise
               ELSE IF ~Unset(l.value) /\ l.value.value.type_len > 0
               THEN Ret(DurationOf(l.value.value))
               ELSE Ret(MinusOneDuration)
          ELSE Raise,
          MinusOneDuration)

get_current_water_duration(pc0, m, s, ts, p, dec) ==
    IF is_return_default(m, s) THEN Ret(Wide(0, 0)) ELSE
    Catch(IF ~is_dp_status(s) THEN Raise ELSE
          LET l == get_dp_device_status(m, s, DURATION, p, dec) IN
          IF l.raised THEN Raise
          ELSE IF Unset(l.value) \/ l.value.value.type_len <= 0 THEN Ret(Wide(0, 0))
          ELSE Ret(DurationOf(l.value.value)),
          Wide(0, 0))

\* lines 380-384 / 401-405: payload bytes 0..3 as a packed timestamp
EventTimeOf(rec) ==
    LET bytes_array == Slice(rec.type_value, 1, 5)
        padded_bytes == ZeroPad(bytes_array, 4)
    IN  get_t4_date_by_param(UnpackQ(padded_bytes))

get_irrigation_end_time_NoWorkModeGate(pc0, m, s, ts, p, dec) ==
    IF is_return_default(m, s) THEN Ret(MinusOneMillis) ELSE
    Catch(IF is_dp_status(s)
          THEN LET l == get_dp_device_status(m, s, EVENT_TIME, p, dec) IN
               IF l.raised THEN Raise
               ELSE IF ~Unset(l.value) /\ Len(l.value.value.type_value) >= 5
               THEN LET t == get_timestamp(EventTimeOf(l.value.value)) IN
                    IF t.raised THEN Raise
                    ELSE Ret(WideSub(t.value, ts, MsPerDay))
               ELSE Ret(MinusOneMillis)
          ELSE Raise,
          MinusOneMillis)

get_irrigation_end_time(pc0, m, s, ts, p, dec) ==
    IF is_return_default(m, s) THEN Ret(MinusOneMillis) ELSE
    Catch(IF is_dp_status(s)
          THEN LET l == get_dp_device_status(m, s, EVENT_TIME, p, dec)
                   wm == get_work_mode(pc0, m, s, ts, p, dec)
               IN
               IF l.raised \/ wm.raised THEN Raise
               ELSE IF /\ wm.value > 0
                       /\ ~Unset(l.value)
                       /\ Len(l.value.value.type_value) >= 5
               THEN LET t == get_timestamp(EventTimeOf(l.value.value)) IN
                    IF t.raised THEN Raise
                    ELSE Ret(WideSub(t.value, ts, MsPerDay))
               ELSE Ret(MinusOneMillis)
          ELSE Raise,
          MinusOneMillis)

get_water_state_time(pc0, m, s, ts, p, dec) ==
    IF is_return_default(m, s) THEN Ret(T4DateDefault) ELSE
    Catch(IF is_dp_status(s)
          THEN LET l == get_dp_device_status(m, s, EVENT_TIME, p, dec) IN
               IF l.raised THEN Raise
               ELSE IF ~Unset(l.value) /\ Len(l.value.value.type_value) >= 5
               THEN Ret(EventTimeOf(l.value.value))
               ELSE Ret(T4DateDefault)
          ELSE Raise,
          T4DateDefault)

(***************************************************************************)
(* Inputs.  A status string is prefix \o body \o suffix: the body the hex  *)
(* form of a byte string (every byte string over ByteAlphabet up to        *)
(* MaxBytes bytes, every concatenation of up to MaxChunks records of the   *)
(* model-271 device) or a malformed string (every string over FuzzAlphabet *)
(* up to MaxFuzzLen characters).                                           *)
(***************************************************************************)
MaxBytes == 4
MaxChunks == 2
MaxFuzzLen == 2
MaxPort == 4

SeqsUpTo(S, n) == UNION {[1..k -> S] : k \in 0..n}

RECURSIVE Flatten(_)
Flatten(ss) == IF ss = <<>> THEN <<>> ELSE Head(ss) \o Flatten(Tail(ss))

\* bytes.hex().upper()
RECURSIVE Hex(_)
Hex(bs) ==
    IF bs = <<>> THEN <<>>
    ELSE <<HexDigits[(bs[1] \div 16) + 1], HexDigits[(bs[1] % 16) + 1]>> \o Hex(Tail(bs))

\* 0x18: id 24 / short form, type 1; 0xDD: BAT, two payload bytes;
\* 0xFC: type_code_part 31, one length byte
ByteAlphabet == {24, 221, 252}

\* id-prefixed records of model 271
Chunks ==
    { <<24, 220, 100>>,                \* BAT: 100
      <<23, 224, 200>>,                \* RSSI: 200
      <<25, 216, 33>>,                 \* WK_STATE port 1, mode nibble 1
      <<25, 216, 16>>,                 \* WK_STATE port 1, mode nibble 0
      <<33, 183, 173, 199, 158, 17>>,  \* EVENT_TIME port 1: 2024-06-15 12:30:45
      <<33, 183, 255, 255, 255, 255>>, \* EVENT_TIME port 1: every field at its maximum
      <<37, 175, 1, 2, 3, 255>>,       \* DURATION port 1, four payload bytes
      <<39, 172, 5>>,                  \* DURATION port 3, one payload byte
      <<29, 35, 0>> }                  \* ALARM port 1 (short form): leak and shortage

FuzzAlphabet == {"1", "Z", "#", ",", "-"}

Prefixes ==
    { <<>>,
      <<"V", "1", "#">>,        \* id-prefixed
      <<"V", "0", "#">>,        \* not id-prefixed
      <<"1", "#", "0">>,        \* "#" at index 1
      <<"V", "V", "1", "#">> }  \* "#" at index 3

DecodedPrefixes == { <<"V", "1", "#">>, <<"V", "0", "#">> }

Suffix == <<",", "e", "x", "t", "r", "a">>

\* "V1#1709010100,extra"
BatScenarioStatus ==
    <<"V", "1", "#", "1", "7", "0", "9", "0", "1", "0", "1", "0", "0">> \o Suffix

\* "V1#18DC6419", "V1#18dc64,extra", and two DURATION records the end of
\* the buffer cuts short: "V1#25AF0102", "V0#AC"
ScenarioStatuses ==
    { BatScenarioStatus,
      <<"V", "1", "#", "1", "8", "D", "C", "6", "4", "1", "9">>,
      <<"V", "1", "#", "1", "8", "d", "c", "6", "4">> \o Suffix,
      <<"V", "1", "#", "2", "5", "A", "F", "0", "1", "0", "2">>,
      <<"V", "0", "#", "A", "C">> }

Statuses ==
    ScenarioStatuses
    \cup {pre \o Hex(bs) : pre \in DecodedPrefixes, bs \in SeqsUpTo(ByteAlphabet, MaxBytes)}
    \cup {pre \o Hex(Flatten(cs)) : pre \in Prefixes, cs \in SeqsUpTo(Chunks, MaxChunks)}
    \cup {pre \o f : pre \in Prefixes, f \in SeqsUpTo(FuzzAlphabet, MaxFuzzLen)}

Models == {0, KnownModel, 999}
Ports == 0..MaxPort
PCodes == {1, 2}
\* reference timestamps, epoch milliseconds: 0 and 2024-01-01 00:00:00.001 UTC
Timestamps == {Wide(0, 0), Wide(19723, 1)}

(***************************************************************************)
(* The state machine.  A status report (model, status) arrives; the lookup *)
(* engine decodes its payload record by record if the accessors get that   *)
(* far; the accessors are then read for a port.                            *)
(***************************************************************************)
NoOut == [unread |-> TRUE]

\* the accessors reach analyze_dp_device_status: the gate is open, the probe
\* succeeds and get_dp_device_status resolved a descriptor (lines 429-430)
ReachesDecode(m, s) ==
    /\ ~is_return_default(m, s)
    /\ is_dp_status(s)
    /\ ~ResolveDescriptor(m, BAT, 0).is_none

\* line 151
LoopCondition_Inclusive(cur, length) == cur <= length

LoopCondition(cur, length) == cur < length

Init ==
    /\ model \in Models
    /\ status \in Statuses
    /\ pcode = 0
    /\ timestamp = Wide(0, 0)
    /\ port = 0
    /\ pc = "call"
    /\ byte_array = <<>>
    /\ has_dp_id = FALSE
    /\ i = 0
    /\ b = 0
    /\ dp_status = DpDeviceStatusDefault
    /\ result = <<>>
    /\ out = NoOut
    /\ t4_raw = Wide(0, 0)
    /\ t4_date = T4DateDefault

\* an accessor returns before the decoder is called
SkipDecode ==
    /\ pc = "call"
    /\ ~ReachesDecode(model, status)
    /\ pc' = "nodecode"
    /\ UNCHANGED <<pcode, model, status, timestamp, port, byte_array, has_dp_id, i,
                   b, dp_status, result, out, t4_raw, t4_date>>

\* get_dp_device_status lines 432-438 and analyze_dp_device_status lines 138-150
EnterDecode ==
    /\ pc = "call"
    /\ ReachesDecode(model, status)
    /\ LET sp == StatusParam(status)
           p  == ParseHex(CutAtComma(sp.status_param))
       IN  /\ has_dp_id' = sp.is_versioned
           /\ IF sp.status_param = <<>>
              THEN pc' = "return" /\ byte_array' = <<>>
              ELSE IF p.raised
              THEN pc' = "raised" /\ byte_array' = <<>>
              ELSE pc' = "while" /\ byte_array' = p.bytes
    /\ i' = 0
    /\ result' = <<>>
    /\ UNCHANGED <<pcode, model, status, timestamp, port, b, dp_status, out,
                   t4_raw, t4_date>>

\* lines 151-158: the loop test, and the id byte in id-prefixed mode
LoopTest ==
    /\ pc = "while"
    /\ IF LoopCondition(i, Len(byte_array))
       THEN IF has_dp_id
            THEN LET r == ReadDpId(byte_array, i)
                 IN  /\ pc' = IF r.raised THEN "raised" ELSE "ctrl"
                     /\ i' = r.i
                     /\ dp_status' = r.st
            ELSE pc' = "ctrl" /\ i' = i /\ dp_status' = DpDeviceStatusDefault
       ELSE pc' = "return" /\ UNCHANGED <<i, dp_status>>
    /\ UNCHANGED <<pcode, model, status, timestamp, port, byte_array, has_dp_id,
                   b, result, out, t4_raw, t4_date>>

\* lines 160-184 for a record without an extended type tag, lines 160-176 for
\* one with
ControlByte ==
    /\ pc = "ctrl"
    /\ LET r == ReadControlByte(byte_array, i, dp_status)
       IN  /\ pc' = r.next
           /\ i' = r.i
           /\ b' = r.b
           /\ dp_status' = r.st
           /\ result' = IF r.next = "while" THEN Append(result, r.st) ELSE result
    /\ UNCHANGED <<pcode, model, status, timestamp, port, byte_array, has_dp_id,
                   out, t4_raw, t4_date>>

\* lines 177-184
ExtendedType ==
    /\ pc = "ext"
    /\ LET r == ReadExtendedType(byte_array, i, dp_status)
       IN  /\ pc' = r.next
           /\ i' = r.i
           /\ dp_status' = r.st
           /\ result' = IF r.next = "while" THEN Append(result, r.st) ELSE result
    /\ UNCHANGED <<pcode, model, status, timestamp, port, byte_array, has_dp_id,
                   b, out, t4_raw, t4_date>>

\* what analyze_dp_device_status came to
Decoded == [raised |-> pc = "raised", result |-> result]

\* the nine accessors, called with the report and a port
ReadAccessors ==
    /\ pc \in {"nodecode", "return", "raised"}
    /\ out = NoOut
    /\ \E pc0 \in PCodes, ts \in Timestamps, p \in Ports :
        /\ pcode' = pc0
        /\ timestamp' = ts
        /\ port' = p
        /\ out' = [is_water_leak |-> is_water_leak(pc0, model, status, ts, p, Decoded),
                   is_water_shortage |-> is_water_shortage(pc0, model, status, ts, p, Decoded),
                   get_bat |-> get_bat(pc0, model, status, ts, Decoded),
                   get_rssi |-> get_rssi(pc0, model, status, ts, Decoded),
                   get_work_mode |-> get_work_mode(pc0, model, status, ts, p, Decoded),
                   get_work_duration |-> get_work_duration(pc0, model, status, ts, p, Decoded),
                   get_current_water_duration |->
                       get_current_water_duration(pc0, model, status, ts, p, Decoded),
                   get_irrigation_end_time |->
                       get_irrigation_end_time(pc0, model, status, ts, p, Decoded),
                   get_water_state_time |->
                       get_water_state_time(pc0, model, status, ts, p, Decoded)]
    /\ UNCHANGED <<model, status, pc, byte_array, has_dp_id, i, b, dp_status,
                   result, t4_raw, t4_date>>

Next ==
    \/ SkipDecode
    \/ EnterDecode
    \/ LoopTest
    \/ ControlByte
    \/ ExtendedType
    \/ ReadAccessors

Spec == Init /\ [][Next]_vars

(***************************************************************************)
(* The packed timestamp codec on its own: every 32-bit value whose set     *)
(* bits are among the lowest and the highest bit of each of the six fields *)
(***************************************************************************)
RECURSIVE SubsetSums(_)
SubsetSums(S) ==
    IF S = {} THEN {0}
    ELSE LET x == CHOOSE y \in S : TRUE
             rest == SubsetSums(S \ {x})
         IN  rest \cup {x + r : r \in rest}

\* bits 0, 5 (second), 6, 11 (minute), 12, 15 (hour, low part)
LowHalfBits == {Pow2(0), Pow2(5), Pow2(6), Pow2(11), Pow2(12), Pow2(15)}
\* bits 16 (hour, high bit), 17, 21 (day), 22, 25 (month), 26, 31 (year)
HighHalfBits == {Pow2(0), Pow2(1), Pow2(5), Pow2(6), Pow2(9), Pow2(10), Pow2(15)}

PackedTimestamps ==
    {Wide(hi, lo) : hi \in SubsetSums(HighHalfBits), lo \in SubsetSums(LowHalfBits)}

InitT4 ==
    /\ t4_raw \in PackedTimestamps
    /\ t4_date = T4DateDefault
    /\ pc = "t4"
    /\ model = 0 /\ status = <<>> /\ pcode = 0 /\ timestamp = Wide(0, 0) /\ port = 0
    /\ byte_array = <<>> /\ has_dp_id = FALSE /\ i = 0 /\ b = 0
    /\ dp_status = DpDeviceStatusDefault /\ result = <<>> /\ out = NoOut

DecodeT4 ==
    /\ pc = "t4"
    /\ t4_date' = get_t4_date_by_param(t4_raw)
    /\ pc' = "t4done"
    /\ UNCHANGED <<pcode, model, status, timestamp, port, byte_array, has_dp_id, i,
                   b, dp_status, result, out, t4_raw>>

NextT4 == DecodeT4

SpecT4 == InitT4 /\ [][NextT4]_vars

(***************************************************************************)
(* The lookup engine on its own: get_dp_device_status called with a model, *)
(* a status string and a port, without the gate and the probe of the       *)
(* accessors in front of it, for each semantic code.                       *)
(***************************************************************************)
DpStatusCodes == {ALARM, DURATION, EVENT_TIME, WK_STATE, BAT, RSSI}

InitLookup ==
    /\ model \in Models
    /\ status \in Statuses
    /\ pc = "lookup"
    /\ pcode = 0 /\ timestamp = Wide(0, 0) /\ port = 0
    /\ byte_array = <<>> /\ has_dp_id = FALSE /\ i = 0 /\ b = 0
    /\ dp_status = DpDeviceStatusDefault /\ result = <<>> /\ out = NoOut
    /\ t4_raw = Wide(0, 0) /\ t4_date = T4DateDefault

\* lines 417-430: no descriptor is resolved, for any code and port
LookupNoModel ==
    /\ pc = "lookup"
    /\ \A c \in DpStatusCodes, p \in Ports : ResolveDescriptor(model, c, p).is_none
    /\ pc' = "lookup_none"
    /\ UNCHANGED <<pcode, model, status, timestamp, port, byte_array, has_dp_id, i,
                   b, dp_status, result, out, t4_raw, t4_date>>

\* lines 432-438 and analyze_dp_device_status lines 138-150
LookupDecode ==
    /\ pc = "lookup"
    /\ \A c \in DpStatusCodes, p \in Ports : ~ResolveDescriptor(model, c, p).is_none
    /\ LET sp == StatusParam(status)
           p  == ParseHex(CutAtComma(sp.status_param))
       IN  /\ has_dp_id' = sp.is_versioned
           /\ IF sp.status_param = <<>>
              THEN pc' = "return" /\ byte_array' = <<>>
              ELSE IF p.raised
              THEN pc' = "raised" /\ byte_array' = <<>>
              ELSE pc' = "while" /\ byte_array' = p.bytes
    /\ i' = 0
    /\ result' = <<>>
    /\ UNCHANGED <<pcode, model, status, timestamp, port, b, dp_status, out,
                   t4_raw, t4_date>>

\* lines 438-447: what the call returns, for a port and each semantic code
ReturnLookup ==
    /\ pc \in {"lookup_none", "return", "raised"}
    /\ out = NoOut
    /\ \E p \in Ports :
        /\ port' = p
        /\ out' = [get_dp_device_status |->
                      [c \in DpStatusCodes |->
                          get_dp_device_status(model, status, c, p, Decoded)]]
    /\ UNCHANGED <<pcode, model, status, timestamp, pc, byte_array, has_dp_id, i, b,
                   dp_status, result, t4_raw, t4_date>>

NextLookup ==
    \/ LookupNoModel
    \/ LookupDecode
    \/ LoopTest
    \/ ControlByte
    \/ ExtendedType
    \/ ReturnLookup

SpecLookup == InitLookup /\ [][NextLookup]_vars

\* the decode loop runs on: the call is synchronous, and a step of the loop
\* that can be taken is taken
FairSpecLookup ==
    SpecLookup /\ WF_vars(LoopTest) /\ WF_vars(ControlByte) /\ WF_vars(ExtendedType)

(***************************************************************************)
(* Properties                                                              *)
(***************************************************************************)
\* the accessors have been read
Read == out # NoOut

Records == {result[k] : k \in 1..Len(result)}
NoRecord(code) == \A r \in Records : r.type_code # code

NoneRaised(o) ==
    /\ ~o.is_water_leak.raised
    /\ ~o.is_water_shortage.raised
    /\ ~o.get_bat.raised
    /\ ~o.get_rssi.raised
    /\ ~o.get_work_mode.raised
    /\ ~o.get_work_duration.raised
    /\ ~o.get_current_water_duration.raised
    /\ ~o.get_irrigation_end_time.raised
    /\ ~o.get_water_state_time.raised

\* the documented defaults: false, false, 0, 0, 0, -1, 0, -1, 2020-00-00 00:00:00
AllDefault(o) ==
    /\ o.is_water_leak.value = FALSE
    /\ o.is_water_shortage.value = FALSE
    /\ o.get_bat.value = 0
    /\ o.get_rssi.value = 0
    /\ o.get_work_mode.value = 0
    /\ o.get_work_duration.value = WideOf(-1, HalfWord)
    /\ o.get_current_water_duration.value = WideOf(0, HalfWord)
    /\ o.get_irrigation_end_time.value = WideOf(-1, MsPerDay)
    /\ o.get_water_state_time.value = T4Date(0, 0, 0, 0, 0, 2020)

\* C1: every accessor returns a value and never propagates a raised error,
\* for every model code, port, reference timestamp and status string; when
\* the lookup fails (the gate or the probe rejects the call, the model has no
\* table, the decode raises) every accessor returns its documented default,
\* and so does an accessor whose record type is not among the decoded
\* records or whose extraction fails.
C1_AccessorsNeverRaise ==
    Read =>
        /\ NoneRaised(out)
        /\ (pc \in {"nodecode", "raised"} => AllDefault(out))
        /\ (NoRecord(ALARM) =>
                /\ out.is_water_leak.value = FALSE
                /\ out.is_water_shortage.value = FALSE)
        /\ (NoRecord(BAT) => out.get_bat.value = 0)
        /\ (NoRecord(RSSI) => out.get_rssi.value = 0)
        /\ (NoRecord(WK_STATE) => out.get_work_mode.value = 0)
        /\ (NoRecord(DURATION) =>
                /\ out.get_work_duration.value = WideOf(-1, HalfWord)
                /\ out.get_current_water_duration.value = WideOf(0, HalfWord))
        /\ (NoRecord(EVENT_TIME) =>
                /\ out.get_irrigation_end_time.value = WideOf(-1, MsPerDay)
                /\ out.get_water_state_time.value = T4Date(0, 0, 0, 0, 0, 2020))
        /\ ((\A r \in Records : r.type_code = EVENT_TIME =>
                                    ~DatetimeValid(EventTimeOf(r)))
                => out.get_irrigation_end_time.value = WideOf(-1, MsPerDay))

\* C1 witness: the decode ran past a truncated buffer (IndexError) and the
\* accessors were read
C1_Witness ==
    /\ Read
    /\ pc = "raised"
    /\ byte_array # <<>>
    /\ i >= Len(byte_array)

\* a second case of C1: a payload that is not hex (ValueError)
C1_WitnessNotHex ==
    /\ Read
    /\ pc = "raised"
    /\ byte_array = <<>>
    /\ model = KnownModel

HashAtIndex2(s) == Len(s) >= 3 /\ s[3] = "#" /\ s[1] # "#" /\ s[2] # "#"

\* C2: is_default is true for every status when model = 0 and, for model # 0,
\* exactly when the status is empty; the probe is true exactly when the first
\* "#" is at index 2; unless model # 0, the status is non-empty and the probe
\* is true, every accessor returns its default and the decoder is not called.
C2_AccessorGate ==
    /\ is_return_default(model, status) = (model = 0 \/ status = <<>>)
    /\ is_dp_status(status) = HashAtIndex2(status)
    /\ (Read /\ ~(model # 0 /\ status # <<>> /\ HashAtIndex2(status))
            => AllDefault(out) /\ pc = "nodecode")

\* C2 witness: model 271, a BAT record behind a marker whose "#" is at index 3
C2_Witness ==
    /\ Read
    /\ model = KnownModel
    /\ status = <<"V", "V", "1", "#">> \o Hex(<<24, 220, 100>>)

\* C3: a model code without a registry table has no descriptor list, the
\* decoder is never called for it, and every accessor returns its default
\* whatever the status string holds.
C3_UnknownModel ==
    model # 271 =>
        /\ get_model(model).is_none
        /\ pc \in {"call", "nodecode"}
        /\ byte_array = <<>> /\ result = <<>>
        /\ (Read => AllDefault(out))

\* C3 witness: model 999 with the well-formed id-prefixed BAT record 18 DC 64
C3_Witness ==
    /\ Read
    /\ model = 999
    /\ status = <<"V", "1", "#">> \o Hex(<<24, 220, 100>>)

\* C4 as stated: for model 271 and "V1#1709010100,extra" the payload
\* 17 09 01 01 00 is decoded in id-prefixed mode, a record with data-point id
\* 24 and type BAT is found and get_bat returns its second value byte.
C4_Original ==
    (Read /\ model = KnownModel /\ status = BatScenarioStatus) =>
        /\ has_dp_id
        /\ byte_array = <<23, 9, 1, 1, 0>>
        /\ \E r \in Records :
              /\ r.dp_id = 24 /\ r.type_code = BAT
              /\ Len(r.type_value) >= 2
              /\ out.get_bat.value = r.type_value[2]

\* C4 amended: for model 271 and "V1#1709010100,extra" the payload
\* 17 09 01 01 00 is decoded in id-prefixed mode into two short-form records
\* of type 0 (ids 23 and 1); no record has id 24 or type BAT, and get_bat
\* returns its default 0.
C4_Amended ==
    (pc \in {"return", "raised"} /\ model = KnownModel /\ status = BatScenarioStatus) =>
        /\ pc = "return"
        /\ has_dp_id
        /\ byte_array = <<23, 9, 1, 1, 0>>
        /\ result = << DpDeviceStatus(23, 0, 1, <<9>>), DpDeviceStatus(1, 0, 1, <<0>>) >>
        /\ \A r \in Records : r.dp_id # 24 /\ r.type_code # BAT
        /\ (Read => out.get_bat.value = 0)

C4_Witness ==
    /\ Read
    /\ model = KnownModel
    /\ status = BatScenarioStatus
    /\ pc = "return"

\* C5 as stated: decoding a buffer of even length without id prefix, the
\* cursor is strictly less than the buffer length at every read of a control
\* byte and of an extended type tag.
C5_Original ==
    (~has_dp_id /\ Len(byte_array) % 2 = 0 /\ pc \in {"ctrl", "ext"})
        => i < Len(byte_array)

\* C5 amended: decoding a buffer of even length without id prefix, the cursor
\* is strictly less than the buffer length at every read of a control byte;
\* at the read of an extended type tag it is at most the buffer length, and
\* when it equals the length the read raises (the decode ends with an
\* IndexError, behind a control byte whose part field is 31) instead of
\* yielding a byte.
C5_Amended ==
    (~has_dp_id /\ Len(byte_array) % 2 = 0) =>
        /\ (pc = "ctrl" => i < Len(byte_array))
        /\ (pc = "ext" => i <= Len(byte_array))
        /\ (pc = "raised" /\ byte_array # <<>>
                => i = Len(byte_array) /\ (b \div 4) % 32 = 31)

\* C5 witness: a four-byte buffer whose last byte announces an extended type
\* tag
C5_Witness ==
    /\ ~has_dp_id
    /\ Len(byte_array) = 4
    /\ pc = "raised"
    /\ i = 4

\* C6: get_irrigation_end_time returns -1 whenever get_work_mode returns 0
\* for the same model, status and port, also when an EVENT_TIME record with
\* four payload bytes is present for that port.
C6_WorkModeGate ==
    (Read /\ out.get_work_mode.value = 0)
        => out.get_irrigation_end_time.value = WideOf(-1, MsPerDay)

\* C6 witness: WK_STATE of port 1 with mode nibble 0 and a well-formed
\* EVENT_TIME record of port 1 holding a valid date
C6_Witness ==
    /\ Read
    /\ model = KnownModel /\ port = 1 /\ has_dp_id
    /\ out.get_work_mode.value = 0
    /\ \E r \in Records : r.dp_id = 25 /\ r.type_code = WK_STATE
                          /\ Len(r.type_value) = 2 /\ r.type_value[2] % 16 = 0
    /\ \E r \in Records : r.dp_id = 33 /\ r.type_code = EVENT_TIME
                          /\ Len(r.type_value) = 5
                          /\ r.type_value = <<183, 173, 199, 158, 17>>

\* the gate of C6 is not vacuous: with a work mode above 0 the end time is
\* returned
C6_EndTimeReturned ==
    /\ Read
    /\ out.get_work_mode.value > 0
    /\ out.get_irrigation_end_time.value # WideOf(-1, MsPerDay)

\* C7: the packed-timestamp decode splits the 32-bit value into disjoint bit
\* fields - second = bits 0..5, minute = bits 6..11, hour = bits 12..16, day
\* = bits 17..21, month = bits 22..25, year = bits 26..31 plus 2020 - so the
\* fields put back at their places give the value again, and the year is in
\* 2020..2083.  (The value is hi * 2^16 + lo.)
C7_PackedTimestampSplit ==
    pc = "t4done" =>
        /\ t4_date.second = t4_raw.lo % 64
        /\ t4_date.minute = (t4_raw.lo \div 64) % 64
        /\ t4_date.hour = (t4_raw.lo \div 4096) + 16 * (t4_raw.hi % 2)
        /\ t4_date.date = (t4_raw.hi \div 2) % 32
        /\ t4_date.month = (t4_raw.hi \div 64) % 16
        /\ t4_date.year = (t4_raw.hi \div 1024) + 2020
        /\ t4_date.second + t4_date.minute * 64 + (t4_date.hour % 16) * 4096 = t4_raw.lo
        /\ (t4_date.hour \div 16) + t4_date.date * 2 + t4_date.month * 64
               + (t4_date.year - 2020) * 1024 = t4_raw.hi
        /\ t4_date.year \in 2020..2083

\* C7 witness: a value with bit 31 and bit 16 set
C7_Witness ==
    /\ pc = "t4done"
    /\ t4_raw.hi >= 32768
    /\ t4_raw.hi % 2 = 1
    /\ t4_date.year >= 2052
    /\ t4_date.hour >= 16

RowsOf(code, p) ==
    {k \in 1..Len(get_model(model).value) :
        /\ get_model(model).value[k].dp_code = code
        /\ get_model(model).value[k].dp_port = p}

RegistryShape(n) ==
    /\ ~get_model(model).is_none
    /\ Len(get_model(model).value) = n
    /\ \A k \in 1..Len(get_model(model).value) : get_model(model).value[k].dp_type = 1
    /\ Cardinality(RowsOf(RSSI, 0)) = 1
    /\ Cardinality(RowsOf(BAT, 0)) = 1
    /\ \A code \in {WK_STATE, ALARM, EVENT_TIME, DURATION} :
          \A p \in 1..3 : Cardinality(RowsOf(code, p)) = 1
    /\ \A j, k \in 1..Len(get_model(model).value) :
          j # k => get_model(model).value[j].dp_id # get_model(model).value[k].dp_id

\* C8 as stated: the table of model 271 has exactly 12 descriptors, all of
\* encoding type 1: one RSSI and one battery descriptor (port 0) and one per
\* port 1..3 for work-state, alarm, event-time and duration; every (code,
\* port) pair appears at most once and every data-point id is distinct.
C8_Original ==
    (model = 271 /\ pc # "call") => RegistryShape(12)

\* C8 amended: the same with exactly 14 descriptors (2 + 4 * 3).
C8_Amended ==
    (model = 271 /\ pc # "call") => RegistryShape(14)

\* C8 witness: the registry of model 271 was consulted and the decode ran
C8_Witness ==
    /\ model = 271
    /\ pc = "return"
    /\ Len(result) >= 1

\* C9: per record, not counting the id byte, the cursor advances by exactly
\* 2 for a short-form record, by len_bytes + 1 for an extended record with
\* part <= 30 and by len_bytes + 2 for one with part = 31 (one of them before
\* the extended type tag is read), len_bytes = (control & 3) + 1.
C9_CursorAdvance ==
    [][ /\ (pc = "ctrl" /\ pc' = "while") =>
              IF byte_array[i + 1] < 128
              THEN i' = i + 2
              ELSE /\ (byte_array[i + 1] \div 4) % 32 <= 30
                   /\ i' = i + ((byte_array[i + 1] % 4) + 1) + 1
        /\ (pc = "ctrl" /\ pc' = "ext") =>
              /\ (byte_array[i + 1] \div 4) % 32 = 31
              /\ i' = i + 1
        /\ (pc = "ext" /\ pc' = "while") =>
              i' = (i - 1) + ((byte_array[i] % 4) + 1) + 2
      ]_vars

\* C9 witness: a short-form record followed by a record with part = 31 and
\* one length byte, the cursor 2 + 3 bytes on
C9_Witness ==
    /\ ~has_dp_id
    /\ pc = "while"
    /\ Len(result) = 2
    /\ result[1].type_code <= 7
    /\ result[2].type_code >= 39 /\ result[2].type_len = 1
    /\ i = 5

\* C10: every record the decoder emits holds the bytes its byte_length
\* announces: a short-form record has byte_length 1 and a one-byte value, an
\* extended record with part <= 30 a value of the control byte and exactly
\* byte_length payload bytes.
C10_ByteLengthMatches ==
    \A r \in Records :
        /\ r.type_code <= 7 => r.type_len = 1 /\ Len(r.type_value) = 1
        /\ (r.type_code >= 8 /\ r.type_code <= 38)
              => Len(r.type_value) = r.type_len + 1

\* no record the decoder appends has an empty value
TypeValueNeverEmpty == \A r \in Records : r.type_value # <<>>

\* "V1#18DC6419": the BAT record 18 DC 64, then a dangling id byte 19
TruncatedBatStatus == <<"V", "1", "#", "1", "8", "D", "C", "6", "4", "1", "9">>

\* the records appended before the decode raised, taken as a complete decode
PartialDecoded == [raised |-> FALSE, result |-> result]

\* C11 as stated: when the cursor runs past the end of the buffer, the
\* records decoded before the overrun are still searched: the battery and
\* signal accessors return what the lookup over those records gives, and
\* for model 271 and status "V1#18DC6419" get_bat returns 100.
C11_Original ==
    (Read /\ pc = "raised") =>
        /\ out.get_bat = get_bat(pcode, model, status, timestamp, PartialDecoded)
        /\ out.get_rssi = get_rssi(pcode, model, status, timestamp, PartialDecoded)
        /\ (model = KnownModel /\ status = TruncatedBatStatus
                => out.get_bat.value = 100)

\* C11 amended: when the cursor runs past the end of the buffer the decode
\* raises before any record is searched; the records decoded before the
\* overrun are dropped with it and every accessor returns its default, also
\* one whose record precedes the truncated tail (model 271, status
\* "V1#18DC6419": the BAT record with id 24 and payload 0x64 was decoded, and
\* get_bat returns 0).
C11_Amended ==
    (Read /\ pc = "raised") =>
        /\ AllDefault(out)
        /\ (\E r \in Records : r.type_code = BAT /\ r.dp_id = 24)
                => out.get_bat.value = 0
        /\ (model = KnownModel /\ status = TruncatedBatStatus
                => /\ result = <<DpDeviceStatus(24, BAT, 1, <<220, 100>>)>>
                   /\ out.get_bat.value = 0)

\* C11 witness: the BAT record of "V1#18DC6419" was decoded, the dangling id
\* byte raised, and the accessors were read
C11_Witness ==
    /\ Read
    /\ pc = "raised"
    /\ model = KnownModel
    /\ status = TruncatedBatStatus
    /\ \E r \in Records : r.type_code = BAT /\ r.dp_id = 24 /\ r.type_value = <<220, 100>>

NormalizedPort(p) == IF p = 0 THEN 1 ELSE p

\* the indices of the rows of model 271 that match a semantic code and port
MatchingRows(code, p) ==
    {k \in 1..Len(Model271) :
        /\ Model271[k].dp_type = 1
        /\ Model271[k].dp_code = code
        /\ NormalizedPort(Model271[k].dp_port) = NormalizedPort(p)}

\* the nine accessors for the report of the current state, read for port p
AccessorsAt(p) ==
    [is_water_leak |-> is_water_leak(pcode, model, status, timestamp, p, Decoded),
     is_water_shortage |-> is_water_shortage(pcode, model, status, timestamp, p, Decoded),
     get_bat |-> get_bat(pcode, model, status, timestamp, Decoded),
     get_rssi |-> get_rssi(pcode, model, status, timestamp, Decoded),
     get_work_mode |-> get_work_mode(pcode, model, status, timestamp, p, Decoded),
     get_work_duration |-> get_work_duration(pcode, model, status, timestamp, p, Decoded),
     get_current_water_duration |->
         get_current_water_duration(pcode, model, status, timestamp, p, Decoded),
     get_irrigation_end_time |->
         get_irrigation_end_time(pcode, model, status, timestamp, p, Decoded),
     get_water_state_time |->
         get_water_state_time(pcode, model, status, timestamp, p, Decoded)]

\* the first record of the decode with a type tag and a data-point id
FirstRecord(code, id) ==
    LET hits == {k \in 1..Len(result) :
                    result[k].type_code = code /\ result[k].dp_id = id}
    IN  IF hits = {} THEN None
        ELSE Some(result[CHOOSE k \in hits : \A j \in hits : k <= j])

\* C12: with the requested port and each descriptor's port normalized (0 as
\* 1), the resolved descriptor of model 271 is the first row with encoding
\* type 1, equal semantic code and equal normalized port; if no row matches
\* it is the last row of the list (DURATION port 3, data-point id 39) and the
\* lookup goes on with that row's id instead of returning None (a duration
\* read for a port without a row is the payload of the first DURATION record
\* with id 39); every accessor gives the same result for port 0 and port 1.
C12_DescriptorResolution ==
    /\ \A code \in DpStatusCodes, p \in Ports :
          LET d == ResolveDescriptor(KnownModel, code, p)
              rows == MatchingRows(code, p)
          IN  /\ ~d.is_none
              /\ rows # {} =>
                    \E k \in rows : d.value = Model271[k] /\ \A j \in rows : k <= j
              /\ rows = {} =>
                    /\ d.value = Model271[Len(Model271)]
                    /\ d.value = RecDeviceDpModel(DURATION, 39, 3, 1)
    /\ (Read /\ port = 0) => out = AccessorsAt(1)
    /\ (Read /\ port = 1) => out = AccessorsAt(0)
    /\ (Read /\ pc = "return" /\ has_dp_id /\ MatchingRows(DURATION, port) = {}) =>
          LET r == FirstRecord(DURATION, 39)
          IN  IF r.is_none
              THEN out.get_work_duration.value = WideOf(-1, HalfWord)
              ELSE out.get_work_duration.value = DurationOf(r.value)

\* C12 witness: a duration read for port 4, which has no row, returned the
\* payload of the DURATION record with id 39 (the last row of the table)
C12_Witness ==
    /\ Read
    /\ model = KnownModel
    /\ port = 4
    /\ MatchingRows(DURATION, port) = {}
    /\ has_dp_id
    /\ ~FirstRecord(DURATION, 39).is_none
    /\ out.get_work_duration.value = Wide(0, 5)

\* a second case of C12: the accessors read for port 0 with a record of
\* port 1 found
C12_WitnessPortZero ==
    /\ Read
    /\ port = 0
    /\ out.get_work_mode.value = 1
    /\ out = AccessorsAt(1)

\* the status string contains "#"
HasMarker(s) == \E k \in 1..Len(s) : s[k] = "#"

\* the payload of a status string as C13 states it: from index 3 if the
\* string contains "#", else the whole string; cut at the first comma
PayloadOf(s) ==
    LET from == IF HasMarker(s) THEN SubSeq(s, 4, Len(s)) ELSE s
        commas == {k \in 1..Len(from) : from[k] = ","}
    IN  IF commas = {} THEN from
        ELSE SubSeq(from, 1, (CHOOSE k \in commas : \A j \in commas : k <= j) - 1)

\* the decode mode as C13 states it
IdPrefixedMode(s) ==
    IF HasMarker(s) THEN Len(s) >= 2 /\ s[2] = "1" ELSE TRUE

\* the first record of the decode, in stream order, that qualifies for a code
\* and a descriptor id in a mode
FirstQualifying(code, id, id_prefixed) ==
    LET hits == {k \in 1..Len(result) :
                    /\ result[k].type_code = code
                    /\ id_prefixed => result[k].dp_id = id}
    IN  IF hits = {} THEN None
        ELSE Some(result[CHOOSE k \in hits : \A j \in hits : k <= j])

LookupReturned == "get_dp_device_status" \in DOMAIN out

\* C13: if the status string contains "#", the decode is id-prefixed exactly
\* when the character at index 1 is "1" and the payload is the substring
\* from index 3, cut at the first comma; otherwise the whole string is the
\* payload and the mode is id-prefixed.  In id-prefixed mode the lookup
\* returns the first decoded record whose type tag equals the semantic code
\* and whose data-point id equals the resolved descriptor's id, in
\* non-prefixed mode the first record whose type tag equals the semantic
\* code; None if no record qualifies.
C13_StatusParsingAndSearch ==
    /\ pc \in {"while", "ctrl", "ext", "return", "raised"} =>
          /\ has_dp_id = IdPrefixedMode(status)
          /\ byte_array # <<>> =>
                /\ Len(byte_array) = Len(PayloadOf(status)) \div 2
                /\ \A k \in 1..Len(byte_array) :
                      (IsHexDigit(PayloadOf(status)[2 * k - 1])
                       /\ IsHexDigit(PayloadOf(status)[2 * k])) =>
                          byte_array[k] =
                              16 * HexDigitValue(PayloadOf(status)[2 * k - 1])
                              + HexDigitValue(PayloadOf(status)[2 * k])
          /\ (PayloadOf(status) # <<>>
              /\ \A k \in 1..Len(PayloadOf(status)) : IsHexDigit(PayloadOf(status)[k])) =>
                Len(byte_array) = Len(PayloadOf(status)) \div 2
    /\ (LookupReturned /\ pc = "return") =>
          \A c \in DpStatusCodes :
              out.get_dp_device_status[c] =
                  Ret(FirstQualifying(c, ResolveDescriptor(model, c, port).value.dp_id,
                                      IdPrefixedMode(status)))

\* C13 witness: a status string without "#" was decoded in id-prefixed mode
\* and the lookup returned the BAT record with the descriptor's id 24
C13_Witness ==
    /\ LookupReturned
    /\ ~HasMarker(status)
    /\ has_dp_id
    /\ ~out.get_dp_device_status[BAT].raised
    /\ ~out.get_dp_device_status[BAT].value.is_none
    /\ out.get_dp_device_status[BAT].value.value.dp_id = 24

\* a second case of C13: in non-prefixed mode a record is returned whose id
\* is not the descriptor's
C13_WitnessNonPrefixed ==
    /\ LookupReturned
    /\ HasMarker(status)
    /\ ~has_dp_id
    /\ ~out.get_dp_device_status[BAT].raised
    /\ ~out.get_dp_device_status[BAT].value.is_none
    /\ out.get_dp_device_status[BAT].value.value.dp_id # 24

\* a third case of C13: in id-prefixed mode a record of the semantic code
\* with another id is passed over
C13_WitnessIdMismatch ==
    /\ LookupReturned
    /\ has_dp_id
    /\ pc = "return"
    /\ \E r \in Records : r.type_code = DURATION /\ r.dp_id = 37
    /\ port = 3
    /\ out.get_dp_device_status[DURATION] = Ret(None)

\* a fourth case of C13: "#" at index 1, the flag character is "#" itself
C13_WitnessMarkerAtIndexOne ==
    /\ LookupReturned
    /\ Len(status) >= 2 /\ status[2] = "#"
    /\ ~has_dp_id
    /\ result # <<>>

\* the decode loop is running / the decoder returned or raised
InLoop == pc \in {"while", "ctrl", "ext"}
DecodeOver == pc \in {"return", "raised"}

\* C14: the decode loop terminates for every input in both modes: the cursor
\* never moves back and an iteration that appends a record has moved it by
\* at least 2; with the iteration under way counted, there are never more
\* iterations than bytes; the records never outnumber the bytes; and a loop
\* that was entered ends, the decoder returning or raising.
C14_DecodeTerminates ==
    /\ [][/\ InLoop => i' >= i
          /\ Len(result') > Len(result) =>
                /\ Len(result') = Len(result) + 1
                /\ i' >= i + 2
                /\ i' >= 2 * Len(result')]_vars
    /\ [](/\ Len(result) <= Len(byte_array)
          /\ 2 * Len(result) <= i
          /\ pc \in {"ctrl", "ext"} => Len(result) + 1 <= Len(byte_array)
          /\ (pc = "raised" /\ byte_array # <<>>) => Len(result) + 1 <= Len(byte_array))
    /\ InLoop ~> DecodeOver

\* C14 witness: a decode in non-prefixed mode returned with one record for
\* every two bytes, a decode in id-prefixed mode being possible as well
C14_Witness ==
    /\ pc = "return"
    /\ ~has_dp_id
    /\ Len(result) >= 2
    /\ 2 * Len(result) = Len(byte_array)
    /\ i = Len(byte_array)

\* a second case of C14: the id-prefixed mode, ended by a raised error
C14_WitnessRaised ==
    /\ pc = "raised"
    /\ has_dp_id
    /\ result # <<>>

\* value byte k of a record (value byte 0 is the control byte); 0 for a byte
\* the end of the buffer cut off
ValueByte(rec, k) ==
    IF k + 1 <= Len(rec.type_value) THEN rec.type_value[k + 1] ELSE 0

\* value bytes 1..byte_length of a record as a little-endian integer
PayloadLittleEndian(rec) ==
    LET byte(k) == IF k <= rec.type_len THEN ValueByte(rec, k) ELSE 0
    IN  Wide(byte(3) + 256 * byte(4), byte(1) + 256 * byte(2))

\* the DURATION record the lookup finds for the port that was read
DurationRecord ==
    IF pc = "return"
    THEN FirstQualifying(DURATION,
                         ResolveDescriptor(model, DURATION, port).value.dp_id,
                         has_dp_id)
    ELSE None

\* C15: get_work_duration and get_current_water_duration apply the same
\* decode: when the lookup finds a DURATION record both return the same
\* value, the record's value bytes 1..byte_length (byte_length in 1..4) as
\* a little-endian integer, which lies in [0, 2^32); when it finds none they
\* return their fallbacks -1 and 0; so get_work_duration returns -1 exactly
\* when no duration was decoded.
C15_SameDurationDecode ==
    Read =>
        /\ DurationRecord.is_none =>
              /\ out.get_work_duration.value = WideOf(-1, HalfWord)
              /\ out.get_current_water_duration.value = WideOf(0, HalfWord)
        /\ ~DurationRecord.is_none =>
              /\ DurationRecord.value.type_len \in 1..4
              /\ out.get_work_duration.value = PayloadLittleEndian(DurationRecord.value)
              /\ out.get_current_water_duration.value = out.get_work_duration.value
              /\ out.get_work_duration.value.hi \in 0..(HalfWord - 1)
              /\ out.get_work_duration.value.lo \in 0..(HalfWord - 1)
        /\ (out.get_work_duration.value = WideOf(-1, HalfWord)) <=> DurationRecord.is_none

\* C15 witness: a DURATION record with four payload bytes 01 02 03 FF was
\* found and both accessors returned 0xFF030201
C15_Witness ==
    /\ Read
    /\ ~DurationRecord.is_none
    /\ DurationRecord.value.type_len = 4
    /\ out.get_work_duration.value = Wide(65283, 513)
    /\ out.get_current_water_duration.value = Wide(65283, 513)

\* a second case of C15: a decoded duration of 0, which the fallback of
\* get_current_water_duration coincides with and that of get_work_duration
\* does not
C15_WitnessZero ==
    /\ Read
    /\ ~DurationRecord.is_none
    /\ out.get_work_duration.value = Wide(0, 0)
    /\ out.get_current_water_duration.value = Wide(0, 0)

\* a third case of C15: a DURATION record the end of the buffer cut short
C15_WitnessCutShort ==
    /\ Read
    /\ ~DurationRecord.is_none
    /\ Len(DurationRecord.value.type_value) < 1 + DurationRecord.value.type_len
    /\ out.get_work_duration.value = Wide(0, 513)

====
